---- MODULE Spec2Model ----
(***************************************************************************)
(* Model of the persistence gateway of the "built" cost-management API:    *)
(* the generic create / read / update / delete helpers of                  *)
(* api/src/utils/helper.py running on request-scoped sessions over a       *)
(* transactional store, the filtered list helper db_filter, the signup     *)
(* and login routes of api/src/routes/auth.py that use them on the Users   *)
(* and Credentials tables, the exception translator error_handler of       *)
(* api/src/utils/errors.py with the audit write of api/src/utils/common.py,*)
(* and the project and task routes of api/src/routes/project.py and        *)
(* api/src/routes/task.py over the Project, Tasks and ActivityLog tables.  *)
(*                                                                         *)
(* The store is the Users table of api/src/models/database.py: a primary   *)
(* key user_id, a NOT NULL column username and a NOT NULL UNIQUE column    *)
(* email.  Every statement of a session sees the committed rows.  A        *)
(* request runs on a session of its own; the steps of concurrent requests  *)
(* interleave between two statements.                                      *)
(***************************************************************************)
EXTENDS Integers, Sequences, FiniteSets, TLC

\* Bound of the model: the gateway calls of one run.
MaxCalls == 3

Ids == {1, 2}
Procs == {"s1", "s2"}
Usernames == {"ann", "bob"}
Emails == {"a@x", "b@x"}

\* None, and the marker of a field a patch model leaves unset.
Null == "null"
Unset == "unset"

Fields == {"username", "email"}
Rows == [username : Usernames, email : Emails]
NullRow == [username |-> Null, email |-> Null]
\* The patches a PATCH request may carry: empty, one field, both fields, an explicit null.
Patches ==
    { [username |-> Unset, email |-> Unset],
      [username |-> "bob", email |-> Unset],
      [username |-> Unset, email |-> "b@x"],
      [username |-> "ann", email |-> "a@x"],
      [username |-> Null, email |-> Unset] }
NoPatch == [username |-> Unset, email |-> Unset]

\* sqlalchemy.exc.IntegrityError, with the constraint that failed.
IntegrityErrors ==
    {"IntegrityError(UNIQUE)", "IntegrityError(NOT NULL)", "IntegrityError(FOREIGN KEY)"}

\* Store failures injected into one statement.
CommitFaults == {"none", "ValidationError", "OperationalError"}
ReadFaults == {"none", "OperationalError"}

VARIABLES
    db,        \* Users table: committed rows by primary key
    pc,        \* per request: the statement it executes next
    cur,       \* per request: the call in progress and the object its session holds
    res,       \* the outcome of the call that ended last, until the caller takes it
    created,   \* history: per id, the payload of the successful create still in force
    deleted,   \* history: ids whose delete returned True with no insert since
    calls,     \* the number of calls begun
    creds,     \* Credentials table: the user_id of every committed row
    out,       \* history: per request, the payload and the status of its create
    fin,       \* the arguments of a db_filter call
    fout,      \* the outcome of that call
    hpc,       \* error_handler: the statement it executes next
    hreq,      \* error_handler: the request and the exception it was called with
    hresp,     \* error_handler: final_response
    hrow,      \* error_handler: the ActivityLog object log built
    htried,    \* history: the audit writes begun for this exception
    alog,      \* ActivityLog table: the committed rows in commit order
    rtok,      \* Credentials table: the user_id of the rows that hold a refresh token
    projects,  \* Project table: committed rows by primary key
    tasks,     \* Tasks table: committed rows by primary key
    fk,        \* the store enforces its foreign keys
    rresp,     \* the route that answered last and its response
    nreq       \* the number of requests answered

hvars == <<hpc, hreq, hresp, hrow, htried, alog>>

rvars == <<projects, tasks, fk, rresp, nreq>>

vars ==
    <<db, pc, cur, res, created, deleted, calls, creds, out, fin, fout, hvars, rtok,
      rvars>>

----------------------------------------------------------------------------
(* The table and its constraints.                                          *)

\* Mutant: the unique index is on username, email is free.
UniqueOkUsername(tbl, id, row) ==
    \A j \in (DOMAIN tbl) \ {id} : tbl[j].username /= row.username

\* email: EmailStr = Field(index=True, unique=True)
UniqueOk(tbl, id, row) ==
    \A j \in (DOMAIN tbl) \ {id} : tbl[j].email /= row.email

\* username: str, email: EmailStr (not Optional: NOT NULL columns)
NotNullOk(row) == \A f \in Fields : row[f] /= Null

\* Mutant: the INSERT stores the column default in place of the payload's username.
InsertDefaultUsername(tbl, id, row) ==
    [j \in (DOMAIN tbl) \cup {id} |->
        IF j = id THEN [row EXCEPT !.username = "ann"] ELSE tbl[j]]

Insert(tbl, id, row) ==
    [j \in (DOMAIN tbl) \cup {id} |-> IF j = id THEN row ELSE tbl[j]]

\* Mutant: the DELETE is never committed.
RemoveUncommitted(tbl, id) == tbl

Remove(tbl, id) == [j \in (DOMAIN tbl) \ {id} |-> tbl[j]]

\* The exception the flush of a pending INSERT raises at commit, "none" if it commits.
InsertExc(tbl, id, row, fault) ==
    IF fault /= "none" THEN fault
    ELSE IF ~NotNullOk(row) THEN "IntegrityError(NOT NULL)"
    ELSE IF id \in DOMAIN tbl \/ ~UniqueOk(tbl, id, row) THEN "IntegrityError(UNIQUE)"
    ELSE "none"

\* The columns whose attribute history shows a net change: the UPDATE sets only these.
Changed(obj, orig) == {f \in Fields : obj[f] /= orig[f]}

UpdatedRow(tbl, id, obj, orig) ==
    [f \in Fields |-> IF f \in Changed(obj, orig) THEN obj[f] ELSE tbl[id][f]]

\* The exception the flush of a dirty object raises at commit, "none" if it commits.
UpdateExc(tbl, id, obj, orig, fault) ==
    IF fault /= "none" THEN fault
    ELSE IF Changed(obj, orig) = {} THEN "none"
    ELSE IF id \notin DOMAIN tbl THEN "StaleDataError"
    ELSE IF ~NotNullOk(UpdatedRow(tbl, id, obj, orig)) THEN "IntegrityError(NOT NULL)"
    ELSE IF ~UniqueOk(tbl, id, UpdatedRow(tbl, id, obj, orig)) THEN "IntegrityError(UNIQUE)"
    ELSE "none"

----------------------------------------------------------------------------
(* helper.py                                                               *)

\* create: the except clauses around the commit, by the class of the exception.
CreateErrorStatus(exc) ==
    IF exc \in IntegrityErrors THEN 409
    ELSE IF exc = "ValidationError" THEN 422
    ELSE 500

\* Mutant: the patch is dumped with exclude_none, an explicit null is dropped.
ApplyPatchExcludeNone(row, patch) ==
    [f \in Fields |-> IF patch[f] \notin {Unset, Null} THEN patch[f] ELSE row[f]]

\* update: setattr(obj, key, value) for the items of model_dump(exclude_unset=True).
ApplyPatch(row, patch) ==
    [f \in Fields |-> IF patch[f] /= Unset THEN patch[f] ELSE row[f]]

NoCall ==
    [op |-> "none", id |-> 0, obj |-> NullRow, orig |-> NullRow, patch |-> NoPatch,
     wrote |-> FALSE, stale |-> FALSE]

NoOutcome == [row |-> NullRow, status |-> 0]

\* History: a committed UPDATE or DELETE of row id reaches the creates of id that
\* have not returned yet (their caller never held the row as it was created).
Touch(id) ==
    [q \in Procs |->
        IF cur[q].op = "create" /\ cur[q].id = id
        THEN [cur[q] EXCEPT !.stale = TRUE]
        ELSE cur[q]]

\* by: the request; op: the helper it called; at: the helper the call ended in;
\* exc: what made it raise ("none": it returned); status: the status of the
\* HTTPException raised, 200 for a return, 0 for an exception that carries none.
NoRes ==
    [by |-> "none", op |-> "none", at |-> "none", id |-> 0, status |-> 0, exc |-> "none",
     data |-> NullRow, raise_empty |-> TRUE, wrote |-> FALSE]

\* Request p is at statement `at`.  The caller of the call that ended last takes
\* its outcome (Respond) before any request goes on; Respond touches no row, so no
\* interleaving of statements is lost.
Ready(p, at) == pc[p] = at /\ res = NoRes

\* A route calls the gateway on its session.
Begin(p) ==
    /\ Ready(p, "idle")
    /\ calls < MaxCalls
    /\ calls' = calls + 1

\* The call of request p ends: it returns or raises, and the caller holds r.
Return(p, r) ==
    /\ res' = [r EXCEPT !.by = p]
    /\ pc' = [pc EXCEPT ![p] = "idle"]
    /\ cur' = [cur EXCEPT ![p] = NoCall]

\* create(session, obj), lines 15-17 and 21-29: session.add and session.commit.
CreateCommit(p, id, row, fault) ==
    /\ Begin(p)
    /\ LET exc == InsertExc(db, id, row, fault) IN
       IF exc = "none"
       THEN /\ db' = Insert(db, id, row)
            /\ pc' = [pc EXCEPT ![p] = "refresh"]
            /\ cur' = [cur EXCEPT ![p] =
                          [NoCall EXCEPT !.op = "create", !.id = id, !.obj = row,
                                         !.wrote = TRUE]]
            /\ created' = [created EXCEPT ![id] = NullRow]
            /\ deleted' = deleted \ {id}
            /\ UNCHANGED res
       ELSE /\ Return(p, [NoRes EXCEPT !.op = "create", !.at = "create", !.id = id,
                                       !.status = CreateErrorStatus(exc), !.exc = exc])
            /\ UNCHANGED <<db, created, deleted>>

\* create, lines 18-20 and 27-29: session.refresh(obj) and the return.
\* The refresh raises when the row is gone or the store fails; the rollback that
\* follows has nothing to undo, the commit is done.
Refresh(p, fault) ==
    /\ Ready(p, "refresh")
    /\ UNCHANGED calls
    /\ LET c == cur[p]
           exc == IF fault /= "none" THEN fault
                  ELSE IF c.id \notin DOMAIN db THEN "InvalidRequestError"
                  ELSE "none"
           r == [NoRes EXCEPT !.op = c.op, !.at = "create", !.id = c.id, !.wrote = c.wrote]
       IN
       IF exc = "none"
       THEN /\ Return(p, [r EXCEPT !.status = 200, !.data = db[c.id]])
            /\ created' = IF c.op = "create" /\ ~c.stale
                          THEN [created EXCEPT ![c.id] = c.obj]
                          ELSE created
       ELSE /\ Return(p, [r EXCEPT !.status = CreateErrorStatus(exc), !.exc = exc])
            /\ UNCHANGED created
    /\ UNCHANGED <<db, deleted>>

\* Mutant: read returns None for a missing row, whatever raise_empty is.
ReadResultMissingIsNone(tbl, op, id, raise_empty, fault) ==
    LET r == [NoRes EXCEPT !.op = op, !.at = "read", !.id = id,
                           !.raise_empty = raise_empty]
    IN
    IF fault /= "none" THEN [r EXCEPT !.status = 500, !.exc = fault]
    ELSE IF id \notin DOMAIN tbl THEN [r EXCEPT !.status = 200]
    ELSE [r EXCEPT !.status = 200, !.data = tbl[id]]

\* The outcome of read(session, obj_id, db, raise_empty), lines 32-42.
ReadResult(tbl, op, id, raise_empty, fault) ==
    LET r == [NoRes EXCEPT !.op = op, !.at = "read", !.id = id,
                           !.raise_empty = raise_empty]
    IN
    IF fault /= "none" THEN [r EXCEPT !.status = 500, !.exc = fault]
    ELSE IF id \notin DOMAIN tbl /\ raise_empty
         THEN [r EXCEPT !.status = 404, !.exc = "NotFound"]
    ELSE IF id \notin DOMAIN tbl
         THEN [r EXCEPT !.exc = "AssertionError"]
    ELSE [r EXCEPT !.status = 200, !.data = tbl[id]]

\* read(session, obj_id, db, raise_empty) called by a route.
Read(p, id, raise_empty, fault) ==
    /\ Begin(p)
    /\ Return(p, ReadResult(db, "read", id, raise_empty, fault))
    /\ UNCHANGED <<db, created, deleted>>

\* update, lines 46-49: the read, and the patch applied to the loaded object.
UpdateRead(p, id, patch, fault) ==
    /\ Begin(p)
    /\ LET r == ReadResult(db, "update", id, TRUE, fault) IN
       IF r.exc = "none"
       THEN /\ pc' = [pc EXCEPT ![p] = "update_commit"]
            /\ cur' = [cur EXCEPT ![p] =
                          [NoCall EXCEPT !.op = "update", !.id = id, !.patch = patch,
                                         !.orig = r.data,
                                         !.obj = ApplyPatch(r.data, patch)]]
            /\ UNCHANGED res
       ELSE Return(p, r)
    /\ UNCHANGED <<db, created, deleted>>

\* update, line 51: create(session, obj) on the patched object, up to its commit.
UpdateCommit(p, fault) ==
    /\ Ready(p, "update_commit")
    /\ UNCHANGED calls
    /\ LET c == cur[p]
           exc == UpdateExc(db, c.id, c.obj, c.orig, fault)
           writes == Changed(c.obj, c.orig) /= {}
       IN
       IF exc = "none"
       THEN /\ db' = IF writes
                     THEN [db EXCEPT ![c.id] = UpdatedRow(db, c.id, c.obj, c.orig)]
                     ELSE db
            /\ pc' = [pc EXCEPT ![p] = "refresh"]
            /\ cur' = [(IF writes THEN Touch(c.id) ELSE cur) EXCEPT ![p] =
                          [NoCall EXCEPT !.op = "update", !.id = c.id, !.wrote = writes]]
            /\ created' = IF writes THEN [created EXCEPT ![c.id] = NullRow] ELSE created
            /\ UNCHANGED res
       ELSE /\ Return(p, [NoRes EXCEPT !.op = "update", !.at = "create", !.id = c.id,
                                       !.status = CreateErrorStatus(exc), !.exc = exc])
            /\ UNCHANGED <<db, created>>
    /\ UNCHANGED deleted

\* delete, line 55: the read.
DeleteRead(p, id, fault) ==
    /\ Begin(p)
    /\ LET r == ReadResult(db, "delete", id, TRUE, fault) IN
       IF r.exc = "none"
       THEN /\ pc' = [pc EXCEPT ![p] = "delete_commit"]
            /\ cur' = [cur EXCEPT ![p] = [NoCall EXCEPT !.op = "delete", !.id = id]]
            /\ UNCHANGED res
       ELSE Return(p, r)
    /\ UNCHANGED <<db, created, deleted>>

\* delete, lines 57-64: session.delete, session.commit and the return.
\* A DELETE that matches no row (the row went meanwhile) only warns.
DeleteCommit(p, fault) ==
    /\ Ready(p, "delete_commit")
    /\ UNCHANGED calls
    /\ LET c == cur[p] IN
       IF fault = "none"
       THEN /\ db' = Remove(db, c.id)
            /\ res' = [NoRes EXCEPT !.by = p, !.op = "delete", !.at = "delete",
                                    !.id = c.id, !.status = 200, !.wrote = TRUE]
            /\ pc' = [pc EXCEPT ![p] = "idle"]
            /\ cur' = [Touch(c.id) EXCEPT ![p] = NoCall]
            /\ created' = [created EXCEPT ![c.id] = NullRow]
            /\ deleted' = deleted \cup {c.id}
       ELSE /\ Return(p, [NoRes EXCEPT !.op = "delete", !.at = "delete", !.id = c.id,
                                       !.status = 500,
                                       !.exc = fault])
            /\ UNCHANGED <<db, created, deleted>>

\* The caller takes the outcome (the route goes on to answer).
Respond ==
    /\ res /= NoRes
    /\ res' = NoRes
    /\ UNCHANGED <<db, pc, cur, created, deleted, calls>>

----------------------------------------------------------------------------
(* helper.py, db_filter                                                    *)

\* Bound of the model: the rows of the filtered table.
MaxRows == 2

\* Mutant: the cap is checked with limit > 101.
LimitCapOffByOne == 100 + 1

\* line 96: if limit > 100
LimitCap == 100

\* obj_id: None, a value Python takes for false, or a key; field_comp: None or a column.
MatchValues == {Null, "", "k1", "k2"}
MatchFields == {Null, "project_id"}
FilterModes == {"first", "last", "all"}
Limits == {-1, 0, 1, 2, 100, 101}
Offsets == {-1, 0, 1, 2}

\* The filtered table in store order: the matched column and the order column.
FilterRows == [project_id : {"k1", "k2"}, ord : {1, 2}]
FilterTables == UNION {[1..n -> FilterRows] : n \in 0..MaxRows}

FilterCalls ==
    [tbl : FilterTables, obj_id : MatchValues, field_comp : MatchFields,
     mode : FilterModes, limit : Limits, offset : Offsets, fault : ReadFaults]

\* The defaults of the signature, lines 82-84, on an empty table.
NoFilterCall ==
    [tbl |-> <<>>, obj_id |-> Null, field_comp |-> Null, mode |-> "first",
     limit |-> 5, offset |-> 0, fault |-> "none"]

\* kind: "raise", "list" (a collection), "one" (a record) or "null" (None);
\* msgs: the messages of the error, joined by " | " in the source;
\* queried: a statement was sent to the store.
NoFilterResult ==
    [kind |-> "none", exc |-> "none", msgs |-> <<>>, rows |-> <<>>, queried |-> FALSE]

\* bool(x)
Truthy(x) == x \notin {Null, ""}

\* lines 101 and 105-106: select(db), with the where clause when both are given.
Matching(a) ==
    IF Truthy(a.obj_id) /\ Truthy(a.field_comp)
    THEN SelectSeq(a.tbl, LAMBDA r : r[a.field_comp] = a.obj_id)
    ELSE a.tbl

\* Mutant: the query is sent without its offset.
PageNoOffset(m, limit, offset) ==
    SubSeq(m, 1, IF limit < Len(m) THEN limit ELSE Len(m))

\* query.limit(limit).offset(offset)
Page(m, limit, offset) ==
    SubSeq(m, offset + 1, IF offset + limit < Len(m) THEN offset + limit ELSE Len(m))

\* query.order_by(indexer.desc()).limit(1): a row of the greatest order value;
\* the store chooses among equal ones.
Last(m) == {i \in 1..Len(m) : \A j \in 1..Len(m) : m[j].ord <= m[i].ord}

\* Mutant: limit == 0 is looked at after the query is built and sent.
db_filter_limit_last(a) ==
    LET errors == (IF a.limit < 0 THEN <<"Limit cannot be less than 0">> ELSE <<>>)
                  \o (IF a.offset < 0 THEN <<"Offset cannot be less than 0">> ELSE <<>>)
        raise(exc, msgs) == [NoFilterResult EXCEPT !.kind = "raise", !.exc = exc,
                                                   !.msgs = msgs]
        m == Matching(a)
    IN
    IF errors /= <<>> THEN {raise("ValueError", errors)}
    ELSE IF a.limit > LimitCap
         THEN {raise("ValueError", <<"Limit must not exceed by 100 per transaction">>)}
    ELSE IF Truthy(a.obj_id) /= Truthy(a.field_comp)
         THEN {raise("ValueError",
                     <<"obj_id and field_comp must both be provided together.">>)}
    ELSE IF a.fault /= "none" THEN {[raise(a.fault, <<>>) EXCEPT !.queried = TRUE]}
    ELSE IF a.limit = 0 THEN {[NoFilterResult EXCEPT !.kind = "list", !.queried = TRUE]}
    ELSE IF a.mode = "all"
         THEN {[NoFilterResult EXCEPT !.kind = "list", !.queried = TRUE,
                                      !.rows = Page(m, a.limit, a.offset)]}
    ELSE IF m = <<>> THEN {[NoFilterResult EXCEPT !.kind = "null", !.queried = TRUE]}
    ELSE IF a.mode = "first"
         THEN {[NoFilterResult EXCEPT !.kind = "one", !.queried = TRUE,
                                      !.rows = <<m[1]>>]}
    ELSE {[NoFilterResult EXCEPT !.kind = "one", !.queried = TRUE, !.rows = <<m[i]>>] :
             i \in Last(m)}

\* The outcomes of db_filter(session, db, obj_id, field_comp, indexer, mode, limit,
\* offset), lines 86-121.
db_filter(a) ==
    LET errors == (IF a.limit < 0 THEN <<"Limit cannot be less than 0">> ELSE <<>>)
                  \o (IF a.offset < 0 THEN <<"Offset cannot be less than 0">> ELSE <<>>)
        raise(exc, msgs) == [NoFilterResult EXCEPT !.kind = "raise", !.exc = exc,
                                                   !.msgs = msgs]
        m == Matching(a)
    IN
    IF errors /= <<>> THEN {raise("ValueError", errors)}
    ELSE IF a.limit > LimitCap
         THEN {raise("ValueError", <<"Limit must not exceed by 100 per transaction">>)}
    ELSE IF a.limit = 0 THEN {[NoFilterResult EXCEPT !.kind = "list"]}
    ELSE IF Truthy(a.obj_id) /= Truthy(a.field_comp)
         THEN {raise("ValueError",
                     <<"obj_id and field_comp must both be provided together.">>)}
    ELSE IF a.fault /= "none" THEN {[raise(a.fault, <<>>) EXCEPT !.queried = TRUE]}
    ELSE IF a.mode = "all"
         THEN {[NoFilterResult EXCEPT !.kind = "list", !.queried = TRUE,
                                      !.rows = Page(m, a.limit, a.offset)]}
    ELSE IF m = <<>> THEN {[NoFilterResult EXCEPT !.kind = "null", !.queried = TRUE]}
    ELSE IF a.mode = "first"
         THEN {[NoFilterResult EXCEPT !.kind = "one", !.queried = TRUE,
                                      !.rows = <<m[1]>>]}
    ELSE {[NoFilterResult EXCEPT !.kind = "one", !.queried = TRUE, !.rows = <<m[i]>>] :
             i \in Last(m)}

\* A route calls db_filter with the arguments fin.
CallDbFilter ==
    /\ fout = NoFilterResult
    /\ fout' \in db_filter(fin)
    /\ UNCHANGED <<db, pc, cur, res, created, deleted, calls, creds, out, fin, hvars, rtok, rvars>>

----------------------------------------------------------------------------
(* routes/auth.py, signup                                                  *)

SignupResult(c, at, status, exc) ==
    [NoRes EXCEPT !.op = "signup", !.at = at, !.id = c.id, !.status = status,
                  !.exc = exc, !.wrote = c.wrote]

\* lines 130-136: select(Users).where(Users.username == user_data.username).
\* An exception that is no HTTPException leaves the route and is answered 500;
\* new_user is None, nothing is deleted.  id is the key uuid4 gives the new user.
SignupUsername(p, id, row, fault) ==
    /\ Begin(p)
    /\ id \notin DOMAIN db
    /\ \A q \in Procs : cur[q].id /= id
    /\ LET c == [NoCall EXCEPT !.op = "signup", !.id = id, !.obj = row] IN
       IF fault /= "none"
       THEN Return(p, SignupResult(c, "signup", 500, fault))
       ELSE IF \E j \in DOMAIN db : db[j].username = row.username
       THEN Return(p, SignupResult(c, "signup", 409, "HTTPException"))
       ELSE /\ pc' = [pc EXCEPT ![p] = "signup_email"]
            /\ cur' = [cur EXCEPT ![p] = c]
            /\ UNCHANGED res
    /\ UNCHANGED <<db, created, deleted, creds>>

\* lines 138-142: select(Users).where(Users.email == user_data.email).
SignupEmail(p, fault) ==
    /\ Ready(p, "signup_email")
    /\ LET c == cur[p] IN
       IF fault /= "none"
       THEN Return(p, SignupResult(c, "signup", 500, fault))
       ELSE IF \E j \in DOMAIN db : db[j].email = c.obj.email
       THEN Return(p, SignupResult(c, "signup", 409, "HTTPException"))
       ELSE /\ pc' = [pc EXCEPT ![p] = "signup_user"]
            /\ UNCHANGED <<cur, res>>
    /\ UNCHANGED <<db, created, deleted, calls, creds>>

\* lines 145-148: create(session, new_user), up to its commit.  The HTTPException
\* of create is raised again as it is (line 174-176).
SignupUser(p, fault) ==
    /\ Ready(p, "signup_user")
    /\ LET c == cur[p]
           exc == InsertExc(db, c.id, c.obj, fault)
       IN
       IF exc = "none"
       THEN /\ db' = Insert(db, c.id, c.obj)
            /\ pc' = [pc EXCEPT ![p] = "signup_refresh"]
            /\ cur' = [cur EXCEPT ![p].wrote = TRUE]
            /\ UNCHANGED res
       ELSE /\ Return(p, SignupResult(c, "create", CreateErrorStatus(exc), exc))
            /\ UNCHANGED db
    /\ UNCHANGED <<created, deleted, calls, creds>>

\* line 148: the session.refresh of that create.
SignupRefresh(p, fault) ==
    /\ Ready(p, "signup_refresh")
    /\ LET c == cur[p]
           exc == IF fault /= "none" THEN fault
                  ELSE IF c.id \notin DOMAIN db THEN "InvalidRequestError"
                  ELSE "none"
       IN
       IF exc = "none"
       THEN /\ pc' = [pc EXCEPT ![p] = "signup_credential"]
            /\ UNCHANGED <<cur, res>>
       ELSE Return(p, SignupResult(c, "create", CreateErrorStatus(exc), exc))
    /\ UNCHANGED <<db, created, deleted, calls, creds>>

\* lines 151-155: create(session, credential), commit and refresh.  The row refers
\* to the user by user_id (foreign_key="users.user_id").
SignupCredential(p, fault, refresh_fault) ==
    /\ Ready(p, "signup_credential")
    /\ LET c == cur[p]
           exc == IF fault /= "none" THEN fault
                  ELSE IF c.id \notin DOMAIN db THEN "IntegrityError(FOREIGN KEY)"
                  ELSE "none"
       IN
       IF exc /= "none"
       THEN /\ Return(p, SignupResult(c, "create", CreateErrorStatus(exc), exc))
            /\ UNCHANGED creds
       ELSE /\ creds' = creds \cup {c.id}
            /\ IF refresh_fault /= "none"
               THEN Return(p, SignupResult(c, "create", CreateErrorStatus(refresh_fault),
                                           refresh_fault))
               ELSE /\ pc' = [pc EXCEPT ![p] = "signup_token"]
                    /\ UNCHANGED <<cur, res>>
    /\ UNCHANGED <<db, created, deleted, calls>>

\* credential_id: uuid.UUID = Field(default_factory=uuid.uuid4, primary_key=True):
\* the primary key of the credential of user u, a value of its own.
CredentialId(u) == u + 10

\* session.get(Credentials, key): the user_id of the row whose primary key is key,
\* 0 (None) when no row has it.  tbl holds the user_id of every row.
CredentialsGet(tbl, key) ==
    IF \E u \in tbl : CredentialId(u) = key
    THEN CHOOSE u \in tbl : CredentialId(u) = key
    ELSE 0

\* _create_token, lines 198-204: the credential is looked up with the user's id as
\* its primary key; the row found, if any, gets the refresh token and its expiry.
\* held: the rows that hold a refresh token.
create_token(tbl, held, user_id) ==
    LET user == CredentialsGet(tbl, user_id) IN
    IF user /= 0 THEN held \cup {user} ELSE held

\* lines 158-172: log and _create_token.  When the lookup of _create_token raises,
\* the route deletes the user (lines 177-182).
SignupToken(p, fault) ==
    /\ Ready(p, "signup_token")
    /\ LET c == cur[p] IN
       IF fault /= "none"
       THEN /\ pc' = [pc EXCEPT ![p] = "signup_undo"]
            /\ UNCHANGED <<cur, res, rtok>>
       ELSE /\ rtok' = create_token(creds, rtok, c.id)
            /\ Return(p, [SignupResult(c, "signup", 200, "none") EXCEPT !.data = c.obj])
    /\ UNCHANGED <<db, created, deleted, calls, creds>>

\* login, lines 63-112: id is the user the username selects and password_ok the
\* outcome of verify_password; fault is a failure of the store in one of the
\* statements, which leaves the route as it is.  Every stored user is active.
Login(p, id, password_ok, fault) ==
    /\ Begin(p)
    /\ LET r == [NoRes EXCEPT !.op = "login", !.at = "login", !.id = id] IN
       IF fault /= "none"
       THEN Return(p, [r EXCEPT !.status = 500, !.exc = fault]) /\ UNCHANGED rtok
       ELSE IF id \notin DOMAIN db \/ id \notin creds \/ ~password_ok
       THEN Return(p, [r EXCEPT !.status = 401, !.exc = "HTTPException"])
            /\ UNCHANGED rtok
       ELSE /\ rtok' = create_token(creds, rtok, id)
            /\ Return(p, [r EXCEPT !.status = 200, !.data = db[id]])
    /\ UNCHANGED <<db, created, deleted, creds>>

\* lines 179-182: delete(session, new_user.user_id, Users), then raise.  With the
\* DELETE of a user the session sets the user_id of the user's credential to NULL
\* (Users.credential has no delete cascade), which its NOT NULL column refuses.
SignupUndo(p, fault) ==
    /\ Ready(p, "signup_undo")
    /\ LET c == cur[p]
           r == ReadResult(db, "signup", c.id, TRUE, "none")
           exc == IF fault /= "none" THEN fault
                  ELSE IF c.id \in creds THEN "IntegrityError(NOT NULL)"
                  ELSE "none"
       IN
       IF r.exc /= "none"
       THEN Return(p, [r EXCEPT !.wrote = c.wrote]) /\ UNCHANGED db
       ELSE IF exc /= "none"
       THEN Return(p, SignupResult(c, "delete", 500, exc)) /\ UNCHANGED db
       ELSE /\ db' = Remove(db, c.id)
            /\ Return(p, SignupResult([c EXCEPT !.wrote = FALSE], "signup", 500,
                                      "OperationalError"))
    /\ UNCHANGED <<created, deleted, calls, creds>>

----------------------------------------------------------------------------
(* utils/errors.py and utils/common.py                                     *)

\* Bound of the model: the violated fields of one request validation failure.
MaxErrs == 2

\* common.py, line 23: message[:255]
DescCap == 255

\* A component of err["loc"]: a field name or a list index.
LocName(s) == [int |-> FALSE, s |-> s, n |-> 0]
LocIndex(n) == [int |-> TRUE, s |-> "", n |-> n]

\* The entries of exc.errors(): a missing body, a field, a nested field, a list item.
ErrItems ==
    { [loc |-> <<LocName("body")>>, msg |-> "Field required"],
      [loc |-> <<LocName("body"), LocName("name")>>, msg |-> "Field required"],
      [loc |-> <<LocName("body"), LocName("address"), LocName("city")>>,
       msg |-> "Field required"],
      [loc |-> <<LocName("body"), LocName("tags"), LocIndex(1)>>,
       msg |-> "Input should be a valid string"] }
ErrLists == UNION {[1..n -> ErrItems] : n \in 1..MaxErrs}

\* The classes of the exceptions, each with the classes it is an instance of.
Bases(class) ==
    CASE class = "RequestValidationError" -> {"RequestValidationError", "Exception"}
      [] class = "HTTPException" ->
             {"HTTPException", "StarletteHTTPException", "Exception"}
      [] class = "StarletteHTTPException" -> {"StarletteHTTPException", "Exception"}
      [] class = "ValueError" -> {"ValueError", "Exception"}
      [] class = "ValidationError" -> {"ValidationError", "ValueError", "Exception"}
      [] OTHER -> {class, "Exception"}

\* isinstance(exc, cls), with HTTPException the class fastapi.exceptions exports
\* (line 4), a subclass of the one starlette raises.
IsInstance(e, cls) == cls \in Bases(e.class)

NoException == [class |-> "none", status |-> 0, msg |-> "", errs |-> <<>>]

\* The messages of the exceptions of each class: the ValueErrors of db_filter, a
\* pydantic ValidationError, a failure of the store, an exception raised with a
\* message, and the AssertionError of a failed assert, which has none.
Messages(class) ==
    CASE class = "ValueError" ->
             {"Limit cannot be less than 0", "Invalid filter mode"}
      [] class = "ValidationError" -> {"1 validation error for Project"}
      [] class = "OperationalError" -> {"database is locked"}
      [] class = "Exception" -> {"Some random error"}
      [] class = "AssertionError" -> {""}

\* What the application hands to error_handler (main.py, lines 36-39): msg is the
\* detail of an HTTPException, the message of any other exception.
Exceptions ==
    {[NoException EXCEPT !.class = "RequestValidationError", !.errs = l] :
        l \in ErrLists}
    \cup {[NoException EXCEPT !.class = "HTTPException", !.status = st, !.msg = m] :
             st \in {404, 409, 500},
             m \in {"Tasks with id 7 not found", "Username already exists"}}
    \cup {[NoException EXCEPT !.class = "StarletteHTTPException", !.status = st,
                              !.msg = "Not Found"] : st \in {404}}
    \cup UNION {{[NoException EXCEPT !.class = c, !.msg = m] : m \in Messages(c)} :
                c \in {"ValueError", "ValidationError", "OperationalError",
                       "Exception", "AssertionError"}}

\* request.url, request.method and request.state.user_id (0: not set).
Requests == [path : {"http://api/tasks/7"}, method : {"GET", "PATCH"}, user_id : {0, 1}]

NoRequest ==
    [req |-> [path |-> "", method |-> "", user_id |-> 0], exc |-> NoException]
NoResponse == [status_code |-> 0, result |-> "none", errors |-> <<>>]
NoLogDetails == [path |-> "", method |-> "", error_class |-> ""]
NoLogRow ==
    [user_id |-> 0, project_id |-> 0, action_type |-> "", action_desc |-> "",
     status_code |-> 0, details |-> NoLogDetails]

\* str(loc)
Str(c) == IF c.int THEN ToString(c.n) ELSE c.s

\* Mutant: the location is its last component.
DottedLastOnly(loc) == IF loc = <<>> THEN "" ELSE Str(loc[Len(loc)])

\* line 38: '.'.join(str(loc) for loc in err['loc'])
Dotted(loc) ==
    LET join[i \in 1..Len(loc)] ==
            IF i = 1 THEN Str(loc[1]) ELSE join[i - 1] \o "." \o Str(loc[i])
    IN IF loc = <<>> THEN "" ELSE join[Len(loc)]

\* line 39: f"{error_location}: {err['msg']}"
ErrorMessage(err) == Dotted(err.loc) \o ": " \o err.msg

\* Mutant: str(exc) gives the name of the class.
ExcStrClassName(e) == e.class

\* str(exc); starlette's HTTPException prints "<status_code>: <detail>".
ExcStr(e) ==
    IF IsInstance(e, "StarletteHTTPException")
    THEN ToString(e.status) \o ": " \o e.msg
    ELSE e.msg

\* Mutant: a ValueError is answered 400.
HandlerStatusValueError400(e) ==
    IF IsInstance(e, "RequestValidationError") THEN 422
    ELSE IF IsInstance(e, "HTTPException") THEN e.status
    ELSE IF IsInstance(e, "ValueError") THEN 400
    ELSE 500

\* status, lines 33, 51, 65 and 79.
HandlerStatus(e) ==
    IF IsInstance(e, "RequestValidationError") THEN 422
    ELSE IF IsInstance(e, "HTTPException") THEN e.status
    ELSE IF IsInstance(e, "ValueError") THEN 404
    ELSE 500

\* title, lines 34, 52, 66 and 80.
HandlerTitle(e) ==
    IF IsInstance(e, "RequestValidationError") THEN "Validation Error"
    ELSE IF IsInstance(e, "HTTPException") THEN "Error"
    ELSE IF IsInstance(e, "ValueError") THEN "Error"
    ELSE "Internal Server Error"

\* detail, lines 36-47, 53, 67 and 81: the text that goes to the audit log.
HandlerDetail(e) ==
    IF IsInstance(e, "RequestValidationError")
    THEN LET acc[i \in 0..Len(e.errs)] ==
                 IF i = 0 THEN "RequestValidationError: "
                 ELSE acc[i - 1] \o "[" \o ErrorMessage(e.errs[i]) \o "] "
         IN acc[Len(e.errs)]
    ELSE IF IsInstance(e, "HTTPException") THEN e.msg
    ELSE IF IsInstance(e, "ValueError") THEN ExcStr(e)
    ELSE "An unhandled critical error occurred."

\* The list handed to error_response, lines 35-46, 55-61, 69-75 and 83.
HandlerErrors(e) ==
    IF IsInstance(e, "RequestValidationError")
    THEN [i \in 1..Len(e.errs) |->
             [status |-> 422, title |-> HandlerTitle(e),
              detail |-> ErrorMessage(e.errs[i])]]
    ELSE IF IsInstance(e, "HTTPException") \/ IsInstance(e, "ValueError")
    THEN <<[status |-> HandlerStatus(e), title |-> HandlerTitle(e),
            detail |-> HandlerDetail(e)]>>
    ELSE <<[status |-> HandlerStatus(e), title |-> HandlerTitle(e),
            detail |-> ExcStr(e)]>>

\* log_details, lines 31 and 85-89.
HandlerLogDetails(req, e) ==
    IF \/ IsInstance(e, "RequestValidationError") \/ IsInstance(e, "HTTPException")
       \/ IsInstance(e, "ValueError")
    THEN NoLogDetails
    ELSE [path |-> req.path, method |-> req.method, error_class |-> e.class]

\* error_response(errors, status), lines 14-26: one ErrorDescription for each
\* entry, in order, in an ErrorResponse with result "error".
error_response(errors, status) ==
    [status_code |-> status, result |-> "error",
     errors |-> [i \in 1..Len(errors) |->
                    [status |-> errors[i].status, title |-> errors[i].title,
                     detail |-> errors[i].detail]]]

\* message[:255]
Truncated(message) ==
    IF Len(message) > DescCap THEN SubSeq(message, 1, DescCap) ELSE message

\* common.py, lines 19-26: the ActivityLog object of log(action, message, user_id,
\* details, code).
LogRow(action, message, user_id, details, code) ==
    [user_id |-> user_id, project_id |-> 0, action_type |-> action,
     action_desc |-> Truncated(message), status_code |-> code, details |-> details]

\* error_handler, lines 29-100, up to the commit of the audit row: the response is
\* built, and for a status >= 400 log is called on a session of its own.
ErrorHandler ==
    /\ hpc = "idle" /\ hreq /= NoRequest /\ hresp = NoResponse
    /\ LET e == hreq.exc
           status == HandlerStatus(e)
       IN
       /\ hresp' = error_response(HandlerErrors(e), status)
       /\ IF status >= 400
          THEN /\ hpc' = "log_commit"
               /\ hrow' = LogRow("API_CALL_FAIL",
                                 HandlerTitle(e) \o ": " \o HandlerDetail(e),
                                 hreq.req.user_id, HandlerLogDetails(hreq.req, e),
                                 status)
               /\ htried' = htried + 1
          ELSE /\ hpc' = "return"
               /\ UNCHANGED <<hrow, htried>>
    /\ UNCHANGED <<hreq, alog>>

\* log, lines 28-29: session.add and session.commit.  user_id refers to a user.
LogCommit(fault) ==
    /\ hpc = "log_commit"
    /\ LET exc == IF fault /= "none" THEN fault
                  ELSE IF hrow.user_id /= 0 /\ hrow.user_id \notin DOMAIN db
                       THEN "IntegrityError(FOREIGN KEY)"
                  ELSE "none"
       IN IF exc = "none"
          THEN hpc' = "log_refresh" /\ alog' = Append(alog, hrow)
          ELSE hpc' = "log_rollback" /\ UNCHANGED alog
    /\ UNCHANGED <<hreq, hresp, hrow, htried>>

\* log, line 30: session.refresh.
LogRefresh(fault) ==
    /\ hpc = "log_refresh"
    /\ hpc' = IF fault = "none" THEN "return" ELSE "log_rollback"
    /\ UNCHANGED <<hreq, hresp, hrow, htried, alog>>

\* log, lines 31-33: the failure is printed and the session rolled back; a
\* rollback that fails leaves log and error_handler as an exception.
LogRollback(fault) ==
    /\ hpc = "log_rollback"
    /\ IF fault = "none"
       THEN hpc' = "return" /\ UNCHANGED hresp
       ELSE hpc' = "raised" /\ hresp' = NoResponse
    /\ UNCHANGED <<hreq, hrow, htried, alog>>

\* error_handler, line 102: return final_response.
ErrorHandlerReturn ==
    /\ hpc = "return"
    /\ hpc' = "done"
    /\ UNCHANGED <<hreq, hresp, hrow, htried, alog>>

----------------------------------------------------------------------------
(* routes/project.py and routes/task.py                                    *)

\* Bound of the model: the requests of one run.
MaxRequests == 2

ProjectIds == {1, 2}
TaskIds == {1}
\* The user_id a request names: user 1 is stored, user 2 is not.
UserRefs == {1, 2}

ProjectRows == [user_id : UserRefs, name : {"p1", "p2"}]
TaskRows == [project_id : ProjectIds]
\* ProjectUpdate and TaskUpdate, as model_dump(exclude_unset=True) gives them: the
\* fields the PATCH body sets.
ProjectPatches ==
    { [f \in {} |-> 0], [user_id |-> 1], [user_id |-> 2], [name |-> "p2"],
      [user_id |-> 2, name |-> "p2"] }
TaskPatches == { [f \in {} |-> 0], [project_id |-> 1], [project_id |-> 2] }

\* What fails in the audit write of log: nothing, the commit, or the commit and
\* the rollback that follows it.  (A refresh that fails after the commit leaves
\* the store and the caller as no failure does.)
LogFaults == {"none", "commit", "rollback"}

\* The body of a response.  kind: a JSON object, a JSON string, or the plain text
\* the server answers with when the exception handler itself raises.
NoBody ==
    [kind |-> "none", result |-> "none", response |-> "none", keys |-> {},
     errors |-> <<>>]

\* SingleSuccessResponse(data=...), response.py, lines 20-23.
EntityBody ==
    [NoBody EXCEPT !.kind = "object", !.result = "ok", !.response = "entity",
                   !.keys = {"result", "response", "data"}]

\* JSONResponse(content=SuccessResponse(result="ok").model_dump_json()): the
\* content is a str, and the body its JSON encoding, a string.
DeletedBody == [NoBody EXCEPT !.kind = "string"]

\* return {"error": "Project not found"}
NotFoundDict == [NoBody EXCEPT !.kind = "object", !.keys = {"error"}]

\* ErrorResponse(result="error", errors=[...]), as error_response renders it.
ErrorBody(errors) ==
    [NoBody EXCEPT !.kind = "object", !.result = "error", !.keys = {"result", "errors"},
                   !.errors = errors]

\* The answer of the server to an exception its handler did not turn into a response.
ServerErrorBody == [NoBody EXCEPT !.kind = "text"]

\* gateway: a gateway call of the route has returned; logs: the log calls the
\* handler made; session: the session argument of the last of them; lograised:
\* the exception of the handler left a log call.
NoRouteResponse ==
    [route |-> "none", status |-> 0, body |-> NoBody, exc |-> "none",
     gateway |-> FALSE, logs |-> 0, session |-> "none", lograised |-> FALSE]

\* raise HTTPException(status_code, detail)
HTTPError(status, detail) ==
    [NoException EXCEPT !.class = "HTTPException", !.status = status, !.msg = detail]

\* read, lines 38-40: f"{db.__name__} with id {obj_id} not found"
NotFound(name, id) == HTTPError(404, name \o " with id " \o ToString(id) \o " not found")

\* create and delete, lines 21-29 and 60-62: the HTTPException for the exception
\* the commit raised.
CommitError(e) == HTTPError(CreateErrorStatus(e), e)

\* 'Depends' object has no attribute 'rollback'
AttributeError ==
    [NoException EXCEPT !.class = "AttributeError",
                        !.msg = "'Depends' object has no attribute 'rollback'"]

\* The tables a request works on.
Store == [projects |-> projects, tasks |-> tasks, alog |-> alog]

\* What a route handler comes to from the store st: the store afterwards, and the
\* exception it raises or the body it returns.
Outcome(st) ==
    [st |-> st, exc |-> NoException, body |-> NoBody, gateway |-> FALSE, logs |-> 0,
     session |-> "none", lograised |-> FALSE]

Raise(o, e) == [o EXCEPT !.exc = e]

\* A gateway call of the handler has returned, with the store as st.
Returned(o, st) == [o EXCEPT !.st = st, !.gateway = TRUE]

\* update, lines 48-49: setattr for every item of model_dump(exclude_unset=True).
Merge(row, patch) ==
    [f \in DOMAIN row |-> IF f \in DOMAIN patch THEN patch[f] ELSE row[f]]

\* session.delete(project) flushes an UPDATE that sets to NULL the project_id of
\* the audit rows of the project (Project.activity_logs, database.py, lines
\* 138-140, has no delete cascade).
Deassociate(tbl, id) ==
    [i \in 1..Len(tbl) |->
        IF tbl[i].project_id = id THEN [tbl[i] EXCEPT !.project_id = 0] ELSE tbl[i]]

\* common.py, lines 10-33: log on `session`, which is "session", the session of the
\* request, or "Depends", the default of the parameter, Depends(get_session), when
\* the call passes none.  A Depends object has neither add nor rollback: the except clause
\* raises in its turn.  A row that refers to no user or to no project is refused
\* by a store that enforces its foreign keys.  An exception of the rollback leaves
\* log; every other one is kept.
log(o, session, row, fault) ==
    LET refused ==
            fk /\ \/ row.user_id /= 0 /\ row.user_id \notin DOMAIN db
                  \/ row.project_id /= 0 /\ row.project_id \notin DOMAIN o.st.projects
        called == [o EXCEPT !.logs = o.logs + 1, !.session = session]
        raised == [called EXCEPT !.lograised = TRUE]
    IN
    IF session = "Depends" THEN Raise(raised, AttributeError)
    ELSE IF fault = "rollback"
    THEN Raise(raised, [NoException EXCEPT !.class = "OperationalError",
                                           !.msg = "database is locked"])
    ELSE IF fault = "commit" \/ refused THEN called
    ELSE [called EXCEPT !.st.alog = Append(o.st.alog, row)]

\* The ActivityLog object of a log call of a route: no user, the project if given.
RouteLogRow(action, message, project_id) ==
    [LogRow(action, message, 0, NoLogDetails, 200) EXCEPT !.project_id = project_id]

\* project.py, lines 369-396: _parse_project reads the owner of the project.
parse_project(o, project) ==
    IF o.exc /= NoException THEN o
    ELSE IF project.user_id \notin DOMAIN db
    THEN Raise(o, NotFound("Users", project.user_id))
    ELSE [o EXCEPT !.body = EntityBody]

\* project.py, lines 104-112.
get_project(st, id, fault, lfault) ==
    LET o == Outcome(st) IN
    IF fault /= "none" THEN Raise(o, HTTPError(500, "Database read error: " \o fault))
    ELSE IF id \notin DOMAIN st.projects THEN Raise(o, NotFound("Project", id))
    ELSE parse_project(
             log(Returned(o, st), "session",
                 RouteLogRow("GET_PROJECT", "Got project info for " \o ToString(id), id),
                 lfault),
             st.projects[id])

\* project.py, lines 126-139: the INSERT is refused for a key that is taken and,
\* by a store that enforces its foreign keys, for a user_id that names no user.
create_project(st, id, row, fault, lfault) ==
    LET o == Outcome(st)
        exc == IF fault /= "none" THEN fault
               ELSE IF id \in DOMAIN st.projects THEN "IntegrityError(UNIQUE)"
               ELSE IF fk /\ row.user_id \notin DOMAIN db
                    THEN "IntegrityError(FOREIGN KEY)"
               ELSE "none"
    IN
    IF exc /= "none" THEN Raise(o, CommitError(exc))
    ELSE parse_project(
             log(Returned(o, [st EXCEPT !.projects = Insert(st.projects, id, row)]),
                 "session",
                 RouteLogRow("CREATE_PROJECT",
                             "Created project with id of " \o ToString(id), id),
                 lfault),
             row)

\* project.py, lines 152-164.
update_project(st, id, patch, fault, lfault) ==
    LET o == Outcome(st)
        obj == Merge(st.projects[id], patch)
        exc == IF fault /= "none" THEN fault
               ELSE IF obj = st.projects[id] THEN "none"
               ELSE IF fk /\ obj.user_id \notin DOMAIN db
                    THEN "IntegrityError(FOREIGN KEY)"
               ELSE "none"
    IN
    IF id \notin DOMAIN st.projects THEN Raise(o, NotFound("Project", id))
    ELSE IF exc /= "none" THEN Raise(o, CommitError(exc))
    ELSE parse_project(
             log(Returned(o, [st EXCEPT !.projects = Insert(st.projects, id, obj)]),
                 "session",
                 RouteLogRow("UPDATE_PROJECT",
                             "Updated project with id " \o ToString(id), id),
                 lfault),
             obj)

\* project.py, lines 177-190: with the DELETE the session sets to NULL the
\* project_id of the tasks and of the audit rows of the project; the column of
\* Tasks is NOT NULL.
delete_project(st, id, fault, lfault) ==
    LET o == Outcome(st)
        exc == IF fault /= "none" THEN fault
               ELSE IF \E t \in DOMAIN st.tasks : st.tasks[t].project_id = id
                    THEN "IntegrityError(NOT NULL)"
               ELSE "none"
        l == log(Returned(o, [st EXCEPT !.projects = Remove(st.projects, id),
                                        !.alog = Deassociate(st.alog, id)]),
                 "session",
                 RouteLogRow("DELETE_PROJECT",
                             "Deleted project with id " \o ToString(id), id),
                 lfault)
    IN
    IF id \notin DOMAIN st.projects THEN Raise(o, NotFound("Project", id))
    ELSE IF exc /= "none" THEN Raise(o, HTTPError(500, exc))
    ELSE IF l.exc /= NoException THEN l
    ELSE [l EXCEPT !.body = DeletedBody]

\* project.py, lines 203-278: session.get, db_filter over the cost entries, log.
get_project_financials(st, id, fault, lfault) ==
    LET o == Outcome(st)
        l == log(Returned(o, st), "session",
                 RouteLogRow("GET_PROJECT_FINANCIALS",
                             "Retrieved financials for project " \o ToString(id), id),
                 lfault)
    IN
    IF fault /= "none"
    THEN Raise(o, [NoException EXCEPT !.class = fault, !.msg = "database is locked"])
    ELSE IF id \notin DOMAIN st.projects THEN [o EXCEPT !.body = NotFoundDict]
    ELSE IF l.exc /= NoException THEN l
    ELSE [l EXCEPT !.body = EntityBody]

\* task.py, lines 71-78.
get_task(st, id, fault, lfault) ==
    LET o == Outcome(st)
        l == log(Returned(o, st), "session",
                 RouteLogRow("GET_TASK", "Got task with id " \o ToString(id), 0), lfault)
    IN
    IF fault /= "none" THEN Raise(o, HTTPError(500, "Database read error: " \o fault))
    ELSE IF id \notin DOMAIN st.tasks THEN Raise(o, NotFound("Tasks", id))
    ELSE IF l.exc /= NoException THEN l
    ELSE [l EXCEPT !.body = EntityBody]

\* task.py, lines 92-104: log is called with the session as its third positional
\* argument, user_id; its session parameter keeps its default.
create_task(st, id, row, fault, lfault) ==
    LET o == Outcome(st)
        exc == IF fault /= "none" THEN fault
               ELSE IF id \in DOMAIN st.tasks THEN "IntegrityError(UNIQUE)"
               ELSE IF fk /\ row.project_id \notin DOMAIN st.projects
                    THEN "IntegrityError(FOREIGN KEY)"
               ELSE "none"
        l == log(Returned(o, [st EXCEPT !.tasks = Insert(st.tasks, id, row)]), "Depends",
                 RouteLogRow("CREATE_TASK", "Created task with id " \o ToString(id), 0),
                 lfault)
    IN
    IF exc /= "none" THEN Raise(o, CommitError(exc))
    ELSE IF l.exc /= NoException THEN l
    ELSE [l EXCEPT !.body = EntityBody]

\* task.py, lines 117-129: log is called with task_id as user_id and the session
\* as details; its session parameter keeps its default.
update_task(st, id, patch, fault, lfault) ==
    LET o == Outcome(st)
        obj == Merge(st.tasks[id], patch)
        exc == IF fault /= "none" THEN fault
               ELSE IF obj = st.tasks[id] THEN "none"
               ELSE IF fk /\ obj.project_id \notin DOMAIN st.projects
                    THEN "IntegrityError(FOREIGN KEY)"
               ELSE "none"
        l == log(Returned(o, [st EXCEPT !.tasks = Insert(st.tasks, id, obj)]), "Depends",
                 RouteLogRow("UPDATE_TASK", "Updated task with id " \o ToString(id), 0),
                 lfault)
    IN
    IF id \notin DOMAIN st.tasks THEN Raise(o, NotFound("Tasks", id))
    ELSE IF exc /= "none" THEN Raise(o, CommitError(exc))
    ELSE IF l.exc /= NoException THEN l
    ELSE [l EXCEPT !.body = EntityBody]

\* task.py, lines 142-155: the same call of log as in update_task.
delete_task(st, id, fault, lfault) ==
    LET o == Outcome(st)
        l == log(Returned(o, [st EXCEPT !.tasks = Remove(st.tasks, id)]), "Depends",
                 RouteLogRow("DELETE_TASK", "Deleted task with id " \o ToString(id), 0),
                 lfault)
    IN
    IF id \notin DOMAIN st.tasks THEN Raise(o, NotFound("Tasks", id))
    ELSE IF fault /= "none" THEN Raise(o, HTTPError(500, fault))
    ELSE IF l.exc /= NoException THEN l
    ELSE [l EXCEPT !.body = DeletedBody]

\* The application answers the request of `route` whose handler came to o: with the
\* body the handler returned, or through error_handler (main.py, lines 36-39),
\* which writes its audit row on a session of its own (errors.py, lines 91-100).
\* When that log raises, error_handler has no response and the server answers.
Answer(route, o, hfault) ==
    LET e == o.exc
        status == HandlerStatus(e)
        req == [path |-> route, method |-> "", user_id |-> 0]
        row == LogRow("API_CALL_FAIL", HandlerTitle(e) \o ": " \o HandlerDetail(e), 0,
                      HandlerLogDetails(req, e), status)
        l == log(Outcome(o.st), "session", row, hfault)
        r == [NoRouteResponse EXCEPT !.route = route, !.gateway = o.gateway,
                                     !.logs = o.logs, !.session = o.session,
                                     !.lograised = o.lograised, !.exc = e.class]
    IN
    IF e = NoException
    THEN [st |-> o.st, resp |-> [r EXCEPT !.status = 200, !.body = o.body]]
    ELSE IF l.exc /= NoException
    THEN [st |-> o.st, resp |-> [r EXCEPT !.status = 500, !.body = ServerErrorBody]]
    ELSE [st |-> l.st,
          resp |-> [r EXCEPT !.status = status,
                             !.body = ErrorBody(error_response(HandlerErrors(e),
                                                               status).errors)]]

\* One request: the handler of `route` runs to its end and the application answers;
\* hfault is what fails in the audit write of error_handler, when it is called.
Request(route, o) ==
    /\ nreq < MaxRequests
    /\ nreq' = nreq + 1
    /\ \E hfault \in IF o.exc = NoException THEN {"none"} ELSE LogFaults :
         LET a == Answer(route, o, hfault) IN
         /\ projects' = a.st.projects
         /\ tasks' = a.st.tasks
         /\ alog' = a.st.alog
         /\ rresp' = a.resp
    /\ UNCHANGED <<db, pc, cur, res, created, deleted, calls, creds, out, fin, fout,
                   hpc, hreq, hresp, hrow, htried, rtok, fk>>

GetProject ==
    \E id \in ProjectIds, fault \in ReadFaults, lfault \in LogFaults :
        Request("get_project", get_project(Store, id, fault, lfault))

CreateProject ==
    \E id \in ProjectIds, row \in ProjectRows, fault \in ReadFaults,
       lfault \in LogFaults :
        /\ row.name = "p1"
        /\ Request("create_project", create_project(Store, id, row, fault, lfault))

UpdateProject ==
    \E id \in ProjectIds, patch \in ProjectPatches, fault \in ReadFaults,
       lfault \in LogFaults :
        Request("update_project", update_project(Store, id, patch, fault, lfault))

DeleteProject ==
    \E id \in ProjectIds, fault \in ReadFaults, lfault \in LogFaults :
        Request("delete_project", delete_project(Store, id, fault, lfault))

GetProjectFinancials ==
    \E id \in ProjectIds, fault \in ReadFaults, lfault \in LogFaults :
        Request("get_project_financials",
                get_project_financials(Store, id, fault, lfault))

GetTask ==
    \E id \in TaskIds, fault \in ReadFaults, lfault \in LogFaults :
        Request("get_task", get_task(Store, id, fault, lfault))

CreateTask ==
    \E id \in TaskIds, row \in TaskRows, fault \in ReadFaults,
       lfault \in LogFaults :
        Request("create_task", create_task(Store, id, row, fault, lfault))

UpdateTask ==
    \E id \in TaskIds, patch \in TaskPatches, fault \in ReadFaults,
       lfault \in LogFaults :
        Request("update_task", update_task(Store, id, patch, fault, lfault))

DeleteTask ==
    \E id \in TaskIds, fault \in ReadFaults, lfault \in LogFaults :
        Request("delete_task", delete_task(Store, id, fault, lfault))

----------------------------------------------------------------------------
(* Concurrent requests on the gateway.                                     *)

EmptyTable == [j \in {} |-> NullRow]

\* The tables the store can hold: every row is complete and no email is shared.
Tables ==
    {t \in UNION {[S -> Rows] : S \in SUBSET Ids} :
        \A j \in DOMAIN t : UniqueOk(t, j, t[j])}

\* No request is in progress and no call has ended.
Quiet ==
    /\ calls = 0
    /\ pc = [p \in Procs |-> "idle"]
    /\ cur = [p \in Procs |-> NoCall]
    /\ res = NoRes
    /\ created = [j \in Ids |-> NullRow]
    /\ deleted = {}
    /\ out = [p \in Procs |-> NoOutcome]

\* No exception has reached error_handler.
NoFailure ==
    /\ hpc = "idle"
    /\ hreq = NoRequest
    /\ hresp = NoResponse
    /\ hrow = NoLogRow
    /\ htried = 0
    /\ alog = <<>>

\* No refresh token is stored, the other tables are empty and no route has
\* answered.
NoRoute ==
    /\ rtok = {}
    /\ projects = EmptyTable
    /\ tasks = EmptyTable
    /\ fk = FALSE
    /\ rresp = NoRouteResponse
    /\ nreq = 0

\* The service starts on the database file as it finds it.
Init ==
    /\ db \in Tables
    /\ creds = {}
    /\ Quiet
    /\ NoFailure
    /\ NoRoute
    /\ fin = NoFilterCall
    /\ fout = NoFilterResult

Next ==
    \/ \E p \in Procs :
        \/ \E id \in Ids, row \in Rows, fault \in CommitFaults :
               CreateCommit(p, id, row, fault) /\ UNCHANGED <<creds, out, fin, fout, hvars, rtok, rvars>>
        \/ \E fault \in ReadFaults :
               Refresh(p, fault) /\ UNCHANGED <<creds, out, fin, fout, hvars, rtok, rvars>>
        \/ \E id \in Ids, raise_empty \in BOOLEAN, fault \in ReadFaults :
               Read(p, id, raise_empty, fault) /\ UNCHANGED <<creds, out, fin, fout, hvars, rtok, rvars>>
        \/ \E id \in Ids, patch \in Patches, fault \in ReadFaults :
               UpdateRead(p, id, patch, fault) /\ UNCHANGED <<creds, out, fin, fout, hvars, rtok, rvars>>
        \/ \E fault \in CommitFaults :
               UpdateCommit(p, fault) /\ UNCHANGED <<creds, out, fin, fout, hvars, rtok, rvars>>
        \/ \E id \in Ids, fault \in ReadFaults :
               DeleteRead(p, id, fault) /\ UNCHANGED <<creds, out, fin, fout, hvars, rtok, rvars>>
        \/ \E fault \in CommitFaults :
               DeleteCommit(p, fault) /\ UNCHANGED <<creds, out, fin, fout, hvars, rtok, rvars>>
    \/ Respond /\ UNCHANGED <<creds, out, fin, fout, hvars, rtok, rvars>>

Spec == Init /\ [][Next]_vars

----------------------------------------------------------------------------
(* Two requests create a record with the same email, each on its session.  *)

\* Request p commits its INSERT; the email is the one the other request sends, the
\* key is a fresh one (user_id: default_factory=uuid.uuid4).
RaceCreate(p, id, row) ==
    /\ out[p] = NoOutcome
    /\ id \notin DOMAIN db
    /\ \A q \in Procs \ {p} : out[q] /= NoOutcome => out[q].row.email = row.email
    /\ CreateCommit(p, id, row, "none")
    /\ out' = [out EXCEPT ![p] = [row |-> row,
                                  status |-> IF pc'[p] = "idle" THEN res'.status ELSE 0]]
    /\ UNCHANGED <<creds, fin, fout, hvars, rtok, rvars>>

RaceRefresh(p) ==
    /\ Refresh(p, "none")
    /\ out' = [out EXCEPT ![p].status = res'.status]
    /\ UNCHANGED <<creds, fin, fout, hvars, rtok, rvars>>

InitRace ==
    /\ db = EmptyTable
    /\ creds = {}
    /\ Quiet
    /\ NoFailure
    /\ NoRoute
    /\ fin = NoFilterCall
    /\ fout = NoFilterResult

NextRace ==
    \/ \E p \in Procs, id \in Ids, row \in Rows : RaceCreate(p, id, row)
    \/ \E p \in Procs : RaceRefresh(p)
    \/ Respond /\ UNCHANGED <<creds, out, fin, fout, hvars, rtok, rvars>>

SpecRace == InitRace /\ [][NextRace]_vars

----------------------------------------------------------------------------
(* Concurrent signups.                                                     *)

\* The users signup has stored so far: each with a credential, no name or email
\* taken twice.
InitSignup ==
    /\ db \in {t \in Tables :
                 \A i, j \in DOMAIN t : i /= j => t[i].username /= t[j].username}
    /\ creds = DOMAIN db
    /\ Quiet
    /\ NoFailure
    /\ NoRoute
    /\ fin = NoFilterCall
    /\ fout = NoFilterResult

NextSignup ==
    \/ \E p \in Procs :
        \/ \E id \in Ids, row \in Rows, fault \in ReadFaults :
               SignupUsername(p, id, row, fault) /\ UNCHANGED <<out, fin, fout, hvars, rtok, rvars>>
        \/ \E fault \in ReadFaults :
               SignupEmail(p, fault) /\ UNCHANGED <<out, fin, fout, hvars, rtok, rvars>>
        \/ \E fault \in CommitFaults :
               SignupUser(p, fault) /\ UNCHANGED <<out, fin, fout, hvars, rtok, rvars>>
        \/ \E fault \in ReadFaults :
               SignupRefresh(p, fault) /\ UNCHANGED <<out, fin, fout, hvars, rtok, rvars>>
        \/ \E fault \in CommitFaults, refresh_fault \in ReadFaults :
               SignupCredential(p, fault, refresh_fault) /\ UNCHANGED <<out, fin, fout, hvars, rtok, rvars>>
        \/ \E fault \in ReadFaults :
               SignupToken(p, fault) /\ UNCHANGED <<out, fin, fout, hvars, rvars>>
        \/ \E id \in Ids, password_ok \in BOOLEAN, fault \in ReadFaults :
               Login(p, id, password_ok, fault) /\ UNCHANGED <<out, fin, fout, hvars, rvars>>
        \/ \E fault \in CommitFaults :
               SignupUndo(p, fault) /\ UNCHANGED <<out, fin, fout, hvars, rtok, rvars>>
    \/ Respond /\ UNCHANGED <<creds, out, fin, fout, hvars, rtok, rvars>>

SpecSignup == InitSignup /\ [][NextSignup]_vars

----------------------------------------------------------------------------
(* One call of db_filter, over every table and every argument list.        *)

InitFilter ==
    /\ db = EmptyTable
    /\ creds = {}
    /\ Quiet
    /\ NoFailure
    /\ NoRoute
    /\ fin \in FilterCalls
    /\ fout = NoFilterResult

NextFilter == CallDbFilter

SpecFilter == InitFilter /\ [][NextFilter]_vars

----------------------------------------------------------------------------
(* One exception translated by error_handler, over every exception.        *)

InitErrors ==
    /\ db \in {t \in Tables : DOMAIN t \subseteq {1}}
    /\ creds = DOMAIN db
    /\ Quiet
    /\ fin = NoFilterCall
    /\ fout = NoFilterResult
    /\ hpc = "idle"
    /\ hreq \in [req : Requests, exc : Exceptions]
    /\ hresp = NoResponse
    /\ hrow = NoLogRow
    /\ htried = 0
    /\ alog = <<>>
    /\ NoRoute

NextErrors ==
    \/ ErrorHandler /\ UNCHANGED <<db, pc, cur, res, created, deleted, calls,
                                     creds, out, fin, fout, rtok,
               rvars>>
    \/ \E fault \in CommitFaults :
           LogCommit(fault) /\ UNCHANGED <<db, pc, cur, res, created, deleted, calls,
                                            creds, out, fin, fout, rtok,
               rvars>>
    \/ \E fault \in ReadFaults :
           LogRefresh(fault) /\ UNCHANGED <<db, pc, cur, res, created, deleted, calls,
                                             creds, out, fin, fout, rtok,
               rvars>>
    \/ \E fault \in ReadFaults :
           LogRollback(fault) /\ UNCHANGED <<db, pc, cur, res, created, deleted, calls,
                                              creds, out, fin, fout, rtok,
               rvars>>
    \/ ErrorHandlerReturn /\ UNCHANGED <<db, pc, cur, res, created, deleted, calls,
                                           creds, out, fin, fout, rtok,
               rvars>>

SpecErrors == InitErrors /\ [][NextErrors]_vars

----------------------------------------------------------------------------
(* A run of requests to the project and task routes, one after the other.  *)

\* User 1 is stored; every stored project belongs to it and every stored task to
\* a stored project; the audit table is empty.  The database_url of the settings
\* decides whether the store enforces its foreign keys (sqlite, the default, does
\* not).
InitRoutes ==
    /\ db = Insert(EmptyTable, 1, [username |-> "ann", email |-> "a@x"])
    /\ creds = {1}
    /\ Quiet
    /\ NoFailure
    /\ fin = NoFilterCall
    /\ fout = NoFilterResult
    /\ rtok = {}
    /\ projects \in {t \in UNION {[S -> ProjectRows] : S \in SUBSET ProjectIds} :
                       \A j \in DOMAIN t : t[j].user_id \in DOMAIN db /\ t[j].name = "p1"}
    /\ tasks \in {t \in UNION {[S -> TaskRows] : S \in SUBSET TaskIds} :
                    \A j \in DOMAIN t : t[j].project_id \in DOMAIN projects}
    /\ fk \in BOOLEAN
    /\ rresp = NoRouteResponse
    /\ nreq = 0

NextRoutes ==
    \/ GetProject
    \/ CreateProject
    \/ UpdateProject
    \/ DeleteProject
    \/ GetProjectFinancials
    \/ GetTask
    \/ CreateTask
    \/ UpdateTask
    \/ DeleteTask

SpecRoutes == InitRoutes /\ [][NextRoutes]_vars

----------------------------------------------------------------------------
(* Properties of the gateway.                                              *)

\* C1: a read that finds a record whose successful create is still in force (no
\* UPDATE or DELETE of that id was committed since the INSERT) returns a record
\* equal to the create's payload in every field.
C1_CreateThenRead ==
    (res.op = "read" /\ res.status = 200 /\ created[res.id] /= NullRow)
        => res.data = created[res.id]

C1_Witness ==
    /\ res.op = "read" /\ res.status = 200
    /\ created[res.id] /= NullRow
    /\ res.data = created[res.id]

\* C2: when an update commits on the record as its read found it, every field the
\* patch sets holds the patch value in the store, and every field the patch leaves
\* unset holds the value it had before the commit (an empty patch changes nothing).
C2_PartialPatch ==
    [][\A p \in Procs :
          ( /\ pc[p] = "update_commit" /\ pc'[p] = "refresh"
            /\ cur[p].id \in DOMAIN db /\ db[cur[p].id] = cur[p].orig )
          => /\ cur[p].id \in DOMAIN db'
             /\ \A f \in Fields :
                   db'[cur[p].id][f] = IF cur[p].patch[f] /= Unset
                                       THEN cur[p].patch[f]
                                       ELSE db[cur[p].id][f]
             /\ \A j \in Ids \ {cur[p].id} :
                   (j \in DOMAIN db') = (j \in DOMAIN db)
                   /\ (j \in DOMAIN db => db'[j] = db[j])
      ]_vars

\* An update has committed the UPDATE of a stored record and goes on to its refresh.
C2_Witness ==
    \E p \in Procs :
        /\ pc[p] = "refresh" /\ cur[p].op = "update" /\ cur[p].wrote
        /\ cur[p].id \in DOMAIN db

\* C3: once delete(id) has returned True, and until a create of that id commits,
\* read(id, raise_empty = True) raises the 404 in every state: the row is gone,
\* and every read of the id that the store answered got the 404.
C3_DeletedStaysGone ==
    /\ \A id \in deleted :
          /\ ReadResult(db, "read", id, TRUE, "none").status = 404
          /\ ReadResult(db, "read", id, TRUE, "none").exc = "NotFound"
    /\ (res.op = "read" /\ res.id \in deleted /\ res.raise_empty
          /\ res.exc /= "OperationalError") => res.status = 404

C3_Witness ==
    res.op = "read" /\ res.id \in deleted /\ res.raise_empty /\ res.status = 404

\* C4: an update or a delete called with an id that has no record ends in its
\* read with the 404 NotFound error of read (unless the read itself fails on the
\* store), it never goes on to its commit, and the step leaves the table as it was.
C4_MissingIdNotFound ==
    [][\A p \in Procs :
          ( /\ pc[p] = "idle" /\ calls' = calls + 1
            /\ \/ /\ pc'[p] \in {"update_commit", "delete_commit"}
                  /\ cur'[p].id \notin DOMAIN db
               \/ /\ res'.by = p /\ res'.op \in {"update", "delete"}
                  /\ res'.id \notin DOMAIN db
                  /\ res'.exc /= "OperationalError" )
          => /\ res'.by = p /\ res'.op \in {"update", "delete"}
             /\ res'.status = 404 /\ res'.exc = "NotFound" /\ res'.at = "read"
             /\ [res' EXCEPT !.by = "none", !.op = "read"]
                    = ReadResult(db, "read", res'.id, TRUE, "none")
             /\ db' = db
      ]_vars

C4_Witness ==
    /\ res.op \in {"update", "delete"} /\ res.status = 404
    /\ res.id \notin DOMAIN db /\ DOMAIN db /= {}

\* C5 (as claimed): a read of an id with no record raises the 404 when raise_empty
\* is true and returns without raising when raise_empty is false.
C5_ReadMissing ==
    (res.op = "read" /\ res.id \notin DOMAIN db /\ res.exc /= "OperationalError")
        => IF res.raise_empty
           THEN res.status = 404 /\ res.exc = "NotFound"
           ELSE res.exc = "none"

\* C6 (as claimed): create raises 409 exactly for a violated uniqueness constraint,
\* 422 for a validation error at persist time, 500 for every other store failure.
C6_CreateStatuses ==
    (res.at = "create" /\ res.exc /= "none")
        => res.status = IF res.exc = "IntegrityError(UNIQUE)" THEN 409
                        ELSE IF res.exc = "ValidationError" THEN 422
                        ELSE 500

\* C7 (as claimed): when create, called directly or through update, raises, the
\* call has committed nothing to the store.
C7_FailedCreateWroteNothing ==
    (res.at = "create" /\ res.exc /= "none") => ~res.wrote

\* C8: when both requests that create a record with the same email have ended,
\* one of them returned the record, the other raised the 409, and one record of
\* the table holds the email.
C8_OneWinner ==
    (\A p \in Procs : out[p].status /= 0)
        => \E w \in Procs :
              /\ out[w].status = 200
              /\ \A q \in Procs \ {w} : out[q].status = 409
              /\ Cardinality({j \in DOMAIN db : db[j].email = out[w].row.email}) = 1

C8_Witness ==
    /\ \A p \in Procs : out[p].status /= 0
    /\ \E p \in Procs : out[p].status = 409
    /\ out["s1"].row.email = out["s2"].row.email

\* C9 (as claimed): in every state signups reach, no two stored users share a
\* username and no two share an email.
C9_UsersUnique ==
    \A i, j \in DOMAIN db :
        i /= j => db[i].username /= db[j].username /\ db[i].email /= db[j].email

\* C10 (as claimed): called with one of obj_id and field_comp given and the other
\* None, a limit in 0..100 and an offset >= 0, db_filter raises a ValueError.
C10_OneOfPairRaises ==
    ( /\ fout /= NoFilterResult
      /\ (fin.obj_id = Null) /= (fin.field_comp = Null)
      /\ fin.limit \in 0..LimitCap /\ fin.offset >= 0 )
        => fout.kind = "raise" /\ fout.exc = "ValueError"

----------------------------------------------------------------------------
(* Properties of db_filter.                                                *)

\* The match pair of the call is a valid one: a key with its column, or neither.
ValidPair ==
    \/ fin.obj_id = Null /\ fin.field_comp = Null
    \/ Truthy(fin.obj_id) /\ Truthy(fin.field_comp)

\* C11: called with limit = 0 and an offset >= 0, db_filter returns an empty
\* collection, raises nothing and sends no statement to the store, for every match
\* pair, every mode, every table and a store that would fail.
C11_LimitZeroEmpty ==
    (fout /= NoFilterResult /\ fin.limit = 0 /\ fin.offset >= 0)
        => /\ fout.kind = "list" /\ fout.rows = <<>>
           /\ fout.exc = "none" /\ ~fout.queried

C11_Witness ==
    /\ fout.kind = "list" /\ fin.limit = 0 /\ fin.offset = 2
    /\ fin.obj_id = "k1" /\ fin.field_comp = "project_id"
    /\ Len(Matching(fin)) > 0 /\ fin.fault /= "none"

\* C12: db_filter raises a ValueError for every limit > 100 (the cap message when
\* the offset is not negative) and for every negative limit or offset, returns no
\* clamped page, and for a limit in 0..100 never raises an error about the limit.
C12_LimitBounds ==
    fout /= NoFilterResult =>
        /\ (fin.limit > 100 \/ fin.limit < 0 \/ fin.offset < 0)
              => fout.kind = "raise" /\ fout.exc = "ValueError" /\ ~fout.queried
        /\ (fin.limit > 100 /\ fin.offset >= 0)
              => fout.msgs = <<"Limit must not exceed by 100 per transaction">>
        /\ fin.limit \in 0..100
              => \A i \in 1..Len(fout.msgs) :
                    fout.msgs[i] \notin {"Limit must not exceed by 100 per transaction",
                                         "Limit cannot be less than 0"}

C12_Witness ==
    /\ fin.limit = 101 /\ fin.offset = 0 /\ fin.mode = "all"
    /\ fout.kind = "raise" /\ fout.exc = "ValueError"

\* C13: in mode ALL with 1 <= limit <= 100, an offset >= 0, a valid match pair and
\* a store that answers, db_filter returns the collection of the records at the
\* positions offset+1 .. offset+limit of the matching records in store order: only
\* matching ones, at most limit, none when the offset is past the matches.
C13_AllPage ==
    ( /\ fout /= NoFilterResult /\ fin.mode = "all"
      /\ fin.limit \in 1..100 /\ fin.offset >= 0
      /\ ValidPair /\ fin.fault = "none" )
        => LET at == {i \in 1..Len(fin.tbl) :
                         fin.obj_id = Null \/ fin.tbl[i].project_id = fin.obj_id}
               \* the position in the table of the k-th matching record
               pos(k) == CHOOSE i \in at : Cardinality({j \in at : j <= i}) = k
               n == Cardinality(at) - fin.offset
               len == IF n < 0 THEN 0 ELSE IF n < fin.limit THEN n ELSE fin.limit
           IN /\ fout.kind = "list" /\ fout.exc = "none"
              /\ Len(fout.rows) = len
              /\ \A k \in 1..len : fout.rows[k] = fin.tbl[pos(fin.offset + k)]

C13_Witness ==
    /\ fout.kind = "list" /\ fin.mode = "all" /\ fin.limit = 1 /\ fin.offset = 1
    /\ fin.obj_id = "k1" /\ fin.field_comp = "project_id"
    /\ Len(fin.tbl) = 2 /\ fin.tbl[1] /= fin.tbl[2]
    /\ fout.rows = <<fin.tbl[2]>>

\* C14 (as claimed): for a limit in 0..100, an offset >= 0, a valid match pair and
\* a store that answers, mode FIRST returns the first matching record or None,
\* mode LAST a matching record of the greatest order value or None, never a
\* collection.
C14_FirstLastOne ==
    ( /\ fout /= NoFilterResult /\ fin.mode \in {"first", "last"}
      /\ fin.limit \in 0..100 /\ fin.offset >= 0
      /\ ValidPair /\ fin.fault = "none" )
        => LET at == {i \in 1..Len(fin.tbl) :
                         fin.obj_id = Null \/ fin.tbl[i].project_id = fin.obj_id}
           IN IF at = {}
              THEN fout.kind = "null"
              ELSE /\ fout.kind = "one"
                   /\ IF fin.mode = "first"
                      THEN fout.rows = <<fin.tbl[CHOOSE i \in at : \A j \in at : i <= j]>>
                      ELSE \E i \in at :
                              /\ fout.rows = <<fin.tbl[i]>>
                              /\ \A j \in at : fin.tbl[j].ord <= fin.tbl[i].ord

----------------------------------------------------------------------------
(* Properties of error_handler.                                            *)

\* The exception is one error_handler has no branch for (its else branch).
Unhandled ==
    hreq.exc.class \notin {"none", "RequestValidationError", "HTTPException",
                           "ValueError", "ValidationError"}

\* C15 (as claimed): every response error_handler builds has result "error" and
\* at least one error entry, and every entry has a title and a detail that are
\* not empty.
C15_EnvelopeNonEmpty ==
    hresp /= NoResponse =>
        /\ hresp.result = "error"
        /\ Len(hresp.errors) >= 1
        /\ \A i \in 1..Len(hresp.errors) :
              hresp.errors[i].title /= "" /\ hresp.errors[i].detail /= ""

\* C16: the response of error_handler has one status, the one of each of its
\* entries: 422 and "Validation Error" for a RequestValidationError; the status
\* the exception carries, "Error" and its detail for an HTTPException (the
\* class fastapi exports); 404, "Error" and the message for any other ValueError
\* (a subclass too); 500 and "Internal Server Error" for every other exception.
C16_StatusByClass ==
    hresp /= NoResponse =>
        LET e == hreq.exc
            st == CASE e.class = "RequestValidationError" -> 422
                    [] e.class = "HTTPException" -> e.status
                    [] e.class \in {"ValueError", "ValidationError"} -> 404
                    [] OTHER -> 500
            title == CASE e.class = "RequestValidationError" -> "Validation Error"
                       [] e.class \in {"HTTPException", "ValueError", "ValidationError"}
                            -> "Error"
                       [] OTHER -> "Internal Server Error"
        IN /\ hresp.status_code = st
           /\ \A i \in 1..Len(hresp.errors) :
                 hresp.errors[i].status = st /\ hresp.errors[i].title = title
           /\ e.class \in {"HTTPException", "ValueError", "ValidationError"}
                 => hresp.errors = <<[status |-> st, title |-> "Error", detail |-> e.msg]>>

C16_Witness ==
    /\ hpc = "done" /\ hreq.exc.class = "ValidationError"
    /\ hresp.status_code = 404 /\ hresp.errors[1].title = "Error"
    /\ hresp.errors[1].detail = "1 validation error for Project"

\* C17: for a RequestValidationError with n errors the response has status 422
\* and n entries, the i-th for the i-th error, each with status 422, the title
\* "Validation Error" and the detail "<path>: <msg>", the path being the
\* components of loc, nested ones and list indexes too, joined by dots.
C17_OneEntryPerField ==
    (hresp /= NoResponse /\ hreq.exc.class = "RequestValidationError") =>
        LET errs == hreq.exc.errs
            text(c) == IF c.int THEN ToString(c.n) ELSE c.s
            path(loc) == CASE Len(loc) = 1 -> text(loc[1])
                           [] Len(loc) = 2 -> text(loc[1]) \o "." \o text(loc[2])
                           [] Len(loc) = 3 -> text(loc[1]) \o "." \o text(loc[2])
                                                 \o "." \o text(loc[3])
        IN /\ hresp.status_code = 422
           /\ Len(hresp.errors) = Len(errs)
           /\ \A i \in 1..Len(errs) :
                 hresp.errors[i] = [status |-> 422, title |-> "Validation Error",
                                    detail |-> path(errs[i].loc) \o ": " \o errs[i].msg]

C17_Witness ==
    /\ hpc = "done" /\ Len(hreq.exc.errs) = 2 /\ Len(hresp.errors) = 2
    /\ hresp.errors[1].detail = "body.tags.1: Input should be a valid string"
    /\ hresp.errors[2].detail = "body.address.city: Field required"

\* C18 (as claimed): for an exception error_handler has no branch for, the one
\* entry of the 500 response carries the fixed title and the fixed generic
\* detail, whatever the message and the class of the exception.
C18_GenericDetail ==
    (hresp /= NoResponse /\ Unhandled) =>
        hresp.errors = <<[status |-> 500, title |-> "Internal Server Error",
                          detail |-> "An unhandled critical error occurred."]>>

\* C19: for an exception error_handler has no branch for, the response has status
\* 500 and one entry, with status 500, the title "Internal Server Error" and the
\* text of the exception as its detail.
C19_UnhandledIs500 ==
    (hresp /= NoResponse /\ Unhandled) =>
        LET e == hreq.exc IN
        /\ hresp.status_code = 500
        /\ hresp.errors =
              <<[status |-> 500, title |-> "Internal Server Error",
                 detail |-> IF e.class = "StarletteHTTPException"
                            THEN ToString(e.status) \o ": " \o e.msg
                            ELSE e.msg]>>

C19_Witness ==
    /\ hpc = "done" /\ hreq.exc.class = "Exception"
    /\ hresp.status_code = 500
    /\ hresp.errors[1].detail = "Some random error"

\* C20 (as claimed): when error_handler is through with an exception it answers
\* with a status >= 400, it has begun one audit write, tagged API_CALL_FAIL and
\* with the status of the response, and it returns the response it built,
\* whatever step of the audit write failed.
C20_OneAuditWrite ==
    (hpc \in {"done", "raised"} /\ hrow.status_code >= 400) =>
        /\ htried = 1
        /\ hrow.action_type = "API_CALL_FAIL"
        /\ hpc = "done"
        /\ hresp = error_response(HandlerErrors(hreq.exc), hrow.status_code)

\* C21 (as claimed): log never leaves as an exception, whichever of its commit,
\* its refresh and the rollback that follows fails, and every row the audit
\* table holds is the complete row log built.
C21_LogNeverRaises ==
    /\ hpc /= "raised"
    /\ \A i \in 1..Len(alog) : alog[i] = hrow

\* C25 (as claimed): a pydantic ValidationError raised in a route handler is
\* answered by error_handler with the status 422.
C25_ModelValidation422 ==
    (hresp /= NoResponse /\ hreq.exc.class = "ValidationError")
        => hresp.status_code = 422

\* C26 (as claimed): an exception that carries a status, the HTTPException of
\* fastapi or the one of starlette it derives from, is answered with the status
\* it carries.
C26_CarriedStatus ==
    (hresp /= NoResponse
       /\ hreq.exc.class \in {"HTTPException", "StarletteHTTPException"})
        => hresp.status_code = hreq.exc.status

----------------------------------------------------------------------------
(* Properties of concurrent requests.                                      *)

\* C24 (as claimed): an update that runs next to a delete of its record, with no
\* failure of the store and no constraint violated, returns the record or ends
\* in its read with the 404; it ends with no other status.
C24_UpdateVsDelete ==
    ( /\ res.op = "update"
      /\ res.exc \notin IntegrityErrors \cup {"ValidationError", "OperationalError"} )
        => \/ res.status = 200 /\ res.exc = "none"
           \/ res.status = 404 /\ res.at = "read"

\* C29 (as claimed): a signup that ended in an error has left no Users row of its
\* own in the store, and every stored user has a Credentials row unless the
\* signup that stored it is still on its way.
C29_SignupAllOrNothing ==
    /\ (res.op = "signup" /\ res.exc /= "none") => res.id \notin DOMAIN db
    /\ \A j \in DOMAIN db :
          j \in creds \/ \E p \in Procs : cur[p].op = "signup" /\ cur[p].id = j

\* C30 (as claimed): when a login or a signup of a user who has a Credentials row
\* has returned its token, that row holds a refresh token.
C30_RefreshTokenStored ==
    (res.op \in {"signup", "login"} /\ res.status = 200 /\ res.id \in creds)
        => res.id \in rtok

----------------------------------------------------------------------------
(* Properties of the routes.                                               *)

\* The body is a response envelope: an object with result "ok", and with
\* response and data together or neither, or with result "error" and a list
\* of errors.
IsEnvelope(body) ==
    /\ body.kind = "object"
    /\ \/ /\ body.result = "ok"
          /\ (body.response \in {"entity", "collection"}) = ("data" \in body.keys)
       \/ body.result = "error" /\ body.errors /= <<>>

\* C22 (as claimed): a request leaves every row of the audit table as it was and
\* in its place; it only adds rows at the end.
C22_AppendOnly ==
    [][/\ Len(alog') >= Len(alog)
       /\ \A i \in 1..Len(alog) : alog'[i] = alog[i]]_vars

\* C23 (as claimed): the body of every response of a route, success or failure,
\* is a response envelope.
C23_AlwaysEnvelope ==
    rresp.route /= "none" => IsEnvelope(rresp.body)

\* C27 (as claimed): a handler whose gateway call has returned has made one log
\* call, on the session of the request, and no exception of that call has ended
\* the request.
C27_OneLogOnOwnSession ==
    rresp.gateway =>
        /\ rresp.logs = 1
        /\ rresp.session = "session"
        /\ ~rresp.lograised

\* C28 (as claimed): the user_id of every stored project is the id of a stored
\* user.
C28_ProjectOwnerStored ==
    \A j \in DOMAIN projects : projects[j].user_id \in DOMAIN db
====
